---- MODULE Spec2Model ----
(***************************************************************************)
(* Model of rem, a command line task / reminder tracker backed by SQLite.  *)
(*                                                                         *)
(* One invocation of the program is main(): App::try_init (schema, the     *)
(* `now` snapshot), App::reminders_to_tasks (the catch-up), then the one   *)
(* command given on the command line.  The store (the SQLite file) is the  *)
(* only state that survives an invocation.                                 *)
(*                                                                         *)
(* Timestamps are whole seconds as stored by the program; `now` is a       *)
(* chrono DateTime and also carries a sub-second part, modelled by the     *)
(* flag now.frac (TRUE: the clock is strictly between two seconds).        *)
(* Option<T> is modelled as a sequence: <<>> is None, <<v>> is Some(v).    *)
(***************************************************************************)
EXTENDS Integers, Sequences, FiniteSets, TLC

\* ------------------------------------------------------------------ bounds
MaxDay == 1          \* the clock reads day 0 .. MaxDay
MaxDate == 1         \* dates given on the command line: day 0 .. MaxDate
MaxId == 3           \* largest task row id the store hands out
MaxReminders == 1    \* rows of the reminders table
MaxWorkBits == 1     \* rows of the work_bits table
MaxWeek == 4         \* the clock of the weekly scenario reads day 0 .. 7 * MaxWeek
MaxLen == 6          \* characters of a period argument given to the parser

\* --------------------------------------------------------------- constants
Day == 86400         \* seconds of chrono's TimeDelta::days(1)
DaysPerWeek == 7     \* the factor of `weeks * 7` in parse_timedelta

\* ----------------------------------------------------------------- Option
None == <<>>
Some(v) == <<v>>
IsSome(o) == o # <<>>
Unwrap(o) == o[1]

SetMax(S) == CHOOSE m \in S : \A x \in S : x <= m

\* the ids of a set, in ascending order (SQLite returns rows in rowid order)
RECURSIVE Ascending(_)
Ascending(S) ==
  IF S = {} THEN <<>>
  ELSE LET m == CHOOSE x \in S : \A y \in S : x <= y
       IN  <<m>> \o Ascending(S \ {m})

RECURSIVE Flatten(_)
Flatten(ss) == IF ss = <<>> THEN <<>> ELSE Head(ss) \o Flatten(Tail(ss))

\* ------------------------------------------------------- parse_timedelta
Digits == {"0", "1", "2", "3", "4", "5", "6", "7", "8", "9"}
DigitVal(c) ==
  CASE c = "0" -> 0 [] c = "1" -> 1 [] c = "2" -> 2 [] c = "3" -> 3
    [] c = "4" -> 4 [] c = "5" -> 5 [] c = "6" -> 6 [] c = "7" -> 7
    [] c = "8" -> 8 [] c = "9" -> 9

\* str::trim: strip leading and trailing white space
RECURSIVE TrimStart(_)
TrimStart(s) ==
  IF s # <<>> /\ Head(s) = " " THEN TrimStart(Tail(s)) ELSE s
RECURSIVE TrimEnd(_)
TrimEnd(s) ==
  IF s # <<>> /\ s[Len(s)] = " " THEN TrimEnd(SubSeq(s, 1, Len(s) - 1)) ELSE s
Trim(s) == TrimEnd(TrimStart(s))

\* str::split(' '): one part per separator plus one; parts may be empty
RECURSIVE SplitSpace(_)
SplitSpace(s) ==
  IF \E i \in 1..Len(s) : s[i] = " "
  THEN LET i == CHOOSE j \in 1..Len(s) :
                  s[j] = " " /\ \A k \in 1..(j - 1) : s[k] # " "
       IN  <<SubSeq(s, 1, i - 1)>> \o SplitSpace(SubSeq(s, i + 1, Len(s)))
  ELSE <<s>>

\* bytes.iter().take_while(|x| x.is_ascii_digit()).count()
RECURSIVE DigitPrefixLen(_)
DigitPrefixLen(s) ==
  IF s # <<>> /\ Head(s) \in Digits THEN 1 + DigitPrefixLen(Tail(s)) ELSE 0

\* str::parse::<i64> of a string of ASCII digits (the empty string is an error)
RECURSIVE ParseDigits(_, _)
ParseDigits(s, acc) ==
  IF s = <<>> THEN acc ELSE ParseDigits(Tail(s), acc * 10 + DigitVal(Head(s)))

\* the result: Err, a panic, or Ok(TimeDelta::days(d))
PErr == [tag |-> "err", days |-> 0]
PPanic == [tag |-> "panic", days |-> 0]
POk(d) == [tag |-> "ok", days |-> d]

\* mutant of ParseParts: a unit given twice is taken from its last part
RECURSIVE ParsePartsLastWins(_, _, _)
ParsePartsLastWins(parts, weeks, days) ==
  IF parts = <<>>
  THEN IF weeks = None /\ days = None
       THEN PErr
       ELSE POk((IF IsSome(days) THEN Unwrap(days) ELSE 0)
                + (IF IsSome(weeks) THEN Unwrap(weeks) ELSE 0) * DaysPerWeek)
  ELSE LET part == Head(parts)
           idx == DigitPrefixLen(part)
           num == SubSeq(part, 1, idx)
           desc == SubSeq(part, idx + 1, Len(part))
       IN  IF Len(desc) > 1 THEN PErr
           ELSE IF Len(desc) = 0 THEN PPanic
           ELSE IF num = <<>> THEN PErr
           ELSE IF desc[1] = "w"
                THEN ParsePartsLastWins(Tail(parts), Some(ParseDigits(num, 0)), days)
           ELSE IF desc[1] = "d"
                THEN ParsePartsLastWins(Tail(parts), weeks, Some(ParseDigits(num, 0)))
           ELSE PErr

\* the body of the `for part in ...` loop and what follows it
RECURSIVE ParseParts(_, _, _)
ParseParts(parts, weeks, days) ==
  IF parts = <<>>
  THEN IF weeks = None /\ days = None
       THEN PErr
       ELSE POk((IF IsSome(days) THEN Unwrap(days) ELSE 0)
                + (IF IsSome(weeks) THEN Unwrap(weeks) ELSE 0) * DaysPerWeek)
  ELSE LET part == Head(parts)
           idx == DigitPrefixLen(part)
           num == SubSeq(part, 1, idx)
           desc == SubSeq(part, idx + 1, Len(part))
       IN  IF Len(desc) > 1 THEN PErr
           ELSE IF Len(desc) = 0 THEN PPanic          \* desc[0] out of bounds
           ELSE IF num = <<>> THEN PErr               \* "".parse::<i64>()
           ELSE IF desc[1] = "w"
                THEN IF IsSome(weeks) THEN PErr
                     ELSE ParseParts(Tail(parts), Some(ParseDigits(num, 0)), days)
           ELSE IF desc[1] = "d"
                THEN IF IsSome(days) THEN PErr
                     ELSE ParseParts(Tail(parts), weeks, Some(ParseDigits(num, 0)))
           ELSE PErr

parse_timedelta(repr) == ParseParts(SplitSpace(Trim(repr)), None, None)

\* ------------------------------------------------------------------ state
VARIABLES
  tables,      \* the tables of the store's schema that exist
  reminders,   \* rows of table reminders: a sequence, the index is the row id
  tasks,       \* rows of table tasks: a function from row id to row
  work_bits,   \* rows of table work_bits: a sequence, the index is the row id
  pc,          \* where main() is: "exited", "started", "caught_up", "parsed",
               \* "spinning", "hung"
  now,         \* App.now of the invocation, running or ended last: [sec, frac]
  action,      \* the command of the invocation once main() has parsed it
  catchErr,    \* reminders_to_tasks returned Err in this invocation
  inserted,    \* row ids add_task handed out during this invocation's catch-up
  out,         \* what the listing commands printed, one entry per rendering
  deleted,     \* history: <<reminder id, due>> of the generated task that the
               \* last command, a delete-task, removed
  exitCode     \* exit status of the invocation that ended last

vars == <<tables, reminders, tasks, work_bits, pc, now, action, catchErr,
          inserted, out, deleted, exitCode>>

AllTables == {"reminders", "tasks", "work_bits"}

\* ------------------------------------------------------------ the clock
\* self.now.timestamp(): whole seconds
Timestamp(t) == t.sec
\* `a < t + d` for a stored timestamp a, the clock t and a duration d
BeforeClockPlus(a, t, d) == a < t.sec + d \/ (t.frac /\ a = t.sec + d)
\* `t < u` for the clock t and a stored timestamp u
ClockBefore(t, u) == t.sec < u

\* ------------------------------------------------------------ the store
\* The REFERENCES clauses of the schema are not enforced by the store: a row
\* may name a task or a reminder that has no row (the sources do not set
\* PRAGMA foreign_keys; the build of SQLite is not part of them).
foreign_keys == FALSE

\* SQLite's rowid for INTEGER PRIMARY KEY: one more than the largest in use
NextRowId(dom) == IF dom = {} THEN 1 ELSE SetMax(dom) + 1

\* App::add_task: the INSERT names the columns (title, description, created,
\* start, due, completed, generated_by) and binds the parameters (title,
\* description, start, now, due, NULL, generated_by) to them in that order.
\* Column created is NOT NULL, so a NULL bound to it fails the statement.
add_task(T, t, title, description, start, due, generated_by) ==
  IF start = None
  THEN [err |-> TRUE, tasks |-> T, id |-> 0]
  ELSE LET id == NextRowId(DOMAIN T)
           row == [title |-> title,
                   description |-> description,
                   created |-> Unwrap(start),
                   start |-> Some(Timestamp(t)),
                   due |-> due,
                   completed |-> None,
                   generated_by |-> generated_by]
       IN  [err |-> FALSE, tasks |-> T @@ (id :> row), id |-> id]

\* mutant of SelectedReminders: the statement has no where clause
SelectedRemindersAll(R, t) == DOMAIN R

\* mutant of SelectedReminders: `until >= ?1`
SelectedRemindersInclusive(R, t) ==
  {r \in DOMAIN R : R[r].until = None \/ Unwrap(R[r].until) >= Timestamp(t)}

\* "... FROM reminders where until is NULL or until > ?1", ?1 = now.timestamp()
SelectedReminders(R, t) ==
  {r \in DOMAIN R : R[r].until = None \/ Unwrap(R[r].until) > Timestamp(t)}

\* "SELECT * FROM tasks where generated_by == ?1"
generated_tasks(T, r) == {i \in DOMAIN T : T[i].generated_by = Some(r)}

\* mutant of FindDue: completed tasks are passed over in the lookup
FindDueOpen(T, gen, next_due) ==
  \E i \in gen : T[i].due = Some(next_due) /\ T[i].completed = None

\* mutant of FindDue: the occurrence is looked up by the start column
FindDueByStart(T, gen, next_due) == \E i \in gen : T[i].start = Some(next_due)

\* generated_tasks.iter().find(|task| task.due == next_due)
FindDue(T, gen, next_due) == \E i \in gen : T[i].due = Some(next_due)

\* mutant of Candidates: `while next_due < self.now`
RECURSIVE CandidatesUpToNow(_, _, _)
CandidatesUpToNow(next_due, period, t) ==
  IF BeforeClockPlus(next_due, t, 0)
  THEN <<next_due>> \o CandidatesUpToNow(next_due + period, period, t)
  ELSE <<>>

\* the values next_due takes in `while next_due < self.now + reminder.period`
\* with `next_due += reminder.period` (period > 0; with period = 0 the loop
\* never ends, see Diverges)
RECURSIVE Candidates(_, _, _)
Candidates(next_due, period, t) ==
  IF BeforeClockPlus(next_due, t, period)
  THEN <<next_due>> \o Candidates(next_due + period, period, t)
  ELSE <<>>

\* the loop of one reminder never ends: next_due does not advance
Diverges(rem, t) == rem.period = 0 /\ BeforeClockPlus(rem.first_due, t, rem.period)

\* mutant of MissingDues: the lookup in generated_tasks is left out
MissingDuesAll(T, rem, r, t) == Candidates(rem.first_due, rem.period, t)

\* mutant of MissingDues: the loop resumes after the latest task generated
MissingDuesAfterLatest(T, rem, r, t) ==
  LET gen == generated_tasks(T, r)
  IN  SelectSeq(Candidates(rem.first_due, rem.period, t),
                LAMBDA d : \A i \in gen : Unwrap(T[i].due) < d)

\* mutant of MissingDues: the occurrence at first_due is passed over
MissingDuesAfterFirst(T, rem, r, t) ==
  LET gen == generated_tasks(T, r)
  IN  SelectSeq(Candidates(rem.first_due, rem.period, t),
                LAMBDA d : d > rem.first_due /\ ~FindDue(T, gen, d))

\* the due times one reminder's loop passes to add_task, in order
MissingDues(T, rem, r, t) ==
  LET gen == generated_tasks(T, r)
  IN  SelectSeq(Candidates(rem.first_due, rem.period, t),
                LAMBDA d : ~FindDue(T, gen, d))

\* the add_task calls of reminders_to_tasks up to the first reminder whose
\* loop never ends (all of them when there is none): <<reminder id, due>>
Plan(R, T, t) ==
  LET sel == Ascending(SelectedReminders(R, t))
      stop == {k \in 1..Len(sel) : Diverges(R[sel[k]], t)}
      upto == IF stop = {} THEN Len(sel)
              ELSE (CHOOSE k \in stop : \A j \in stop : k <= j) - 1
  IN  Flatten([k \in 1..upto |->
        LET ds == MissingDues(T, R[sel[k]], sel[k], t)
        IN  [j \in 1..Len(ds) |-> <<sel[k], ds[j]>>]])

\* the reminder whose loop never ends, if there is one
Spinning(R, t) ==
  LET stop == {r \in SelectedReminders(R, t) : Diverges(R[r], t)}
  IN  IF stop = {} THEN None
      ELSE Some(CHOOSE r \in stop : \A q \in stop : r <= q)

\* mutant of AddGenerated: the tasks the reminder has generated are reopened
AddGeneratedReopen(R, T, t, r, next_due) ==
  add_task([i \in DOMAIN T |->
              IF T[i].generated_by = Some(r) THEN [T[i] EXCEPT !.completed = None]
              ELSE T[i]],
           t, R[r].title, R[r].description,
           Some(next_due - R[r].period), Some(next_due), Some(r))

\* mutant of AddGenerated: no due time is passed
AddGeneratedNoDue(R, T, t, r, next_due) ==
  add_task(T, t, R[r].title, R[r].description,
           Some(next_due - R[r].period), None, Some(r))

\* the call of add_task in the loop body, for reminder r and next_due
AddGenerated(R, T, t, r, next_due) ==
  add_task(T, t, R[r].title, R[r].description,
           Some(next_due - R[r].period), Some(next_due), Some(r))

\* the first n calls of the plan applied to the store
RECURSIVE Apply(_, _, _, _, _)
Apply(R, T, t, plan, n) ==
  IF n = 0 \/ plan = <<>> THEN [tasks |-> T, ids |-> <<>>]
  ELSE LET res == AddGenerated(R, T, t, Head(plan)[1], Head(plan)[2])
           rest == Apply(R, res.tasks, t, Tail(plan), n - 1)
       IN  [tasks |-> rest.tasks, ids |-> <<res.id>> \o rest.ids]

\* App::reminders_to_tasks when every loop ends and no statement fails
reminders_to_tasks(R, T, t) ==
  LET plan == Plan(R, T, t) IN Apply(R, T, t, plan, Len(plan))

\* --------------------------------------------------------------- rendering
\* Reminder::is_active
is_active(rem, t) == IF IsSome(rem.until) THEN ClockBefore(t, Unwrap(rem.until)) ELSE TRUE

\* mutant of ReminderFmt: a reminder counts as inactive once it has an until
ReminderFmtByUntil(R, r, all, verbose, t) ==
  LET active == R[r].until = None
  IN  IF ~all /\ ~active THEN <<>>
      ELSE <<[kind |-> "reminder", id |-> r,
              marker |-> IF ~active THEN "x" ELSE " ",
              title |-> R[r].title]>>

\* Reminder::fmt: nothing for an inactive reminder unless `all`; the heading
\* carries the marker, the id and the title (colours are left out)
ReminderFmt(R, r, all, verbose, t) ==
  LET active == is_active(R[r], t)
  IN  IF ~all /\ ~active THEN <<>>
      ELSE <<[kind |-> "reminder", id |-> r,
              marker |-> IF ~active THEN "x" ELSE " ",
              title |-> R[r].title]>>

\* the `while next_due < now` loop of Reminder::fmt never ends
FmtDiverges(R, r, all, t) ==
  /\ all \/ is_active(R[r], t)
  /\ R[r].period = 0
  /\ BeforeClockPlus(R[r].first_due, t, 0)

\* Task::from_db_row with a connection: "SELECT datetime, description from
\* work_bits WHERE task_id = {id}"
TaskWorkBits(W, id) ==
  LET hit == SelectSeq(W, LAMBDA w : w.task_id = id)
  IN  [k \in 1..Len(hit) |-> <<hit[k].datetime, hit[k].description>>]

\* Task::fmt: nothing for a completed task unless `all`; the work bits are
\* printed in verbose mode only
TaskFmt(T, W, id, all, verbose) ==
  IF ~all /\ IsSome(T[id].completed) THEN <<>>
  ELSE <<[kind |-> "task", id |-> id,
          marker |-> IF IsSome(T[id].completed) THEN "x" ELSE " ",
          title |-> T[id].title,
          bits |-> IF verbose THEN TaskWorkBits(W, id) ELSE <<>>]>>

\* App::show_tasks
show_tasks(T, W, all, verbose) ==
  LET ids == Ascending(DOMAIN T)
  IN  Flatten([k \in 1..Len(ids) |-> TaskFmt(T, W, ids[k], all, verbose)])

\* App::show_reminders, up to the first reminder whose rendering never ends:
\* its heading is written before the loop that does not end
show_reminders(R, all, verbose, t) ==
  LET stop == {r \in DOMAIN R : FmtDiverges(R, r, all, t)}
      upto == IF stop = {} THEN Len(R)
              ELSE CHOOSE r \in stop : \A q \in stop : r <= q
  IN  Flatten([r \in 1..upto |-> ReminderFmt(R, r, all, verbose, t)])

\* ------------------------------------------------------------------ inputs
\* readings of chrono::Local::now()
Clock == {[sec |-> d * Day, frac |-> f] : d \in 0..MaxDay, f \in BOOLEAN}

\* DATETIME arguments as parse_date_time returns them; "bad" stands for a
\* string it rejects, "none" for an option that is not given
Dates == {d * Day : d \in 0..MaxDate}
BadDate == [tag |-> "bad", val |-> 0]
NoDate == [tag |-> "none", val |-> 0]
OkDate(d) == [tag |-> "ok", val |-> d]
DateOpt(a) == IF a.tag = "ok" THEN Some(a.val) ELSE None

\* title and description arguments
Texts == {[title |-> "a", description |-> None],
          [title |-> "b", description |-> Some("x")]}

\* the command lines of `rem reminder`
ReminderArgs ==
  {[text |-> x, first_due |-> OkDate(d), period |-> p, until |-> u] :
     x \in Texts, d \in Dates, p \in {<<"0", "d">>, <<"1", "d">>, <<"2", "d">>},
     u \in {NoDate, OkDate(MaxDate * Day)}}
  \cup
  {[text |-> CHOOSE x \in Texts : x.title = "a", first_due |-> d, period |-> p,
    until |-> u] :
     d \in {OkDate(0), BadDate}, p \in {<<"1", "w", " ", "1", "w">>, <<>>},
     u \in {NoDate, BadDate}}

\* the command lines of `rem task`
TaskArgs ==
  {[text |-> x, due |-> d, start |-> b] :
     x \in {y \in Texts : y.title = "a"},
     d \in {NoDate, OkDate(MaxDate * Day), BadDate},
     b \in {NoDate, OkDate(0), BadDate}}

TaskIds == 1..MaxId

\* The wall clock moves on between two invocations: every reading is later
\* than the one before.  Boot is a time before the first invocation.
Boot == [sec |-> 0 - Day, frac |-> FALSE]
Later(t, u) == t.sec > u.sec \/ (t.sec = u.sec /\ t.frac /\ ~u.frac)

\* -------------------------------------------------------------------- Init
\* The store file is either new (no table) or carries the three tables of
\* the schema (a file written by an earlier release or with the sqlite3 shell).
Init ==
  /\ tables \in {{}, AllTables}
  /\ reminders = <<>>
  /\ tasks = <<>>
  /\ work_bits = <<>>
  /\ pc = "exited"
  /\ now = Boot
  /\ action = [cmd |-> "none"]
  /\ catchErr = FALSE
  /\ inserted = <<>>
  /\ out = <<>>
  /\ deleted = {}
  /\ exitCode = 0

store == <<tables, reminders, tasks, work_bits>>

\* process::exit(code) or the return from main
Exit(code) == pc' = "exited" /\ exitCode' = code /\ now' = now

\* ------------------------------------------------------------------- main
\* get_database_connection fails: main exits with status 1
NoConnection ==
  /\ pc = "exited"
  /\ Exit(1)
  /\ action' = [cmd |-> "none"]
  /\ catchErr' = FALSE /\ inserted' = <<>> /\ out' = <<>>
  /\ UNCHANGED store
  /\ UNCHANGED deleted

\* App::try_init: the clock is read, then each missing table is created.
\* SQLite accepts the statement for reminders; it rejects those for tasks and
\* work_bits (a column definition follows a table constraint), so with one of
\* them missing try_init returns Err and main exits with status 1.
try_init ==
  /\ pc = "exited"
  /\ \E t \in Clock :
       /\ Later(t, now)
       /\ now' = t
       /\ tables' = tables \cup {"reminders"}
       /\ IF {"tasks", "work_bits"} \subseteq tables
          THEN /\ NextRowId(DOMAIN tasks) + Len(Plan(reminders, tasks, t)) - 1 <= MaxId
               /\ pc' = "started" /\ exitCode' = exitCode
          ELSE pc' = "exited" /\ exitCode' = 1
  /\ action' = [cmd |-> "none"]
  /\ catchErr' = FALSE /\ inserted' = <<>> /\ out' = <<>>
  /\ UNCHANGED <<reminders, tasks, work_bits>>
  /\ UNCHANGED deleted

\* App::reminders_to_tasks returns Ok
CatchUpOk ==
  /\ pc = "started"
  /\ Spinning(reminders, now) = None
  /\ LET res == reminders_to_tasks(reminders, tasks, now)
     IN  tasks' = res.tasks /\ inserted' = res.ids
  /\ pc' = "caught_up"
  /\ UNCHANGED <<tables, reminders, work_bits, now, action, catchErr, out, exitCode>>
  /\ UNCHANGED deleted

\* App::reminders_to_tasks returns Err: a statement fails in the store after
\* k calls of add_task went through; main prints the error and goes on
CatchUpErr ==
  /\ pc = "started"
  /\ LET plan == Plan(reminders, tasks, now)
     IN  \E k \in {0} \cup (0..(Len(plan) - 1)) :
           LET res == Apply(reminders, tasks, now, plan, k)
           IN  tasks' = res.tasks /\ inserted' = res.ids
  /\ catchErr' = TRUE
  /\ pc' = "caught_up"
  /\ UNCHANGED <<tables, reminders, work_bits, now, action, out, exitCode>>
  /\ UNCHANGED deleted

\* App::reminders_to_tasks reaches a reminder whose loop never ends
\* (period = 0): the reminders before it are done, then the loop runs on,
\* calling add_task each time round when first_due was missing ("spinning")
CatchUpHang ==
  /\ pc = "started"
  /\ Spinning(reminders, now) # None
  /\ LET res == reminders_to_tasks(reminders, tasks, now)
         r == Unwrap(Spinning(reminders, now))
     IN  /\ tasks' = res.tasks /\ inserted' = res.ids
         /\ pc' = IF FindDue(tasks, generated_tasks(tasks, r), reminders[r].first_due)
                  THEN "hung" ELSE "spinning"
  /\ UNCHANGED <<tables, reminders, work_bits, now, action, catchErr, out, exitCode>>
  /\ UNCHANGED deleted

\* one more round of the loop that never ends
Spin ==
  /\ pc = "spinning"
  /\ NextRowId(DOMAIN tasks) <= MaxId
  /\ LET r == Unwrap(Spinning(reminders, now))
         res == AddGenerated(reminders, tasks, now, r, reminders[r].first_due)
     IN  tasks' = res.tasks /\ inserted' = Append(inserted, res.id)
  /\ UNCHANGED <<tables, reminders, work_bits, pc, now, action, catchErr, out, exitCode>>
  /\ UNCHANGED deleted

\* the user interrupts a process that does not end
Kill ==
  /\ pc \in {"spinning", "hung"}
  /\ Exit(130)
  /\ UNCHANGED <<store, action, catchErr, inserted, out>>
  /\ UNCHANGED deleted

\* mutant of ReadyToDispatch: the command is dispatched before the catch-up
ReadyToDispatchEarly == pc \in {"started", "caught_up"}

\* `Args::parse()` and the `match` of main run once reminders_to_tasks is back
ReadyToDispatch == pc = "caught_up"

\* clap rejects the command line: exit status 2
ArgsRejected ==
  /\ ReadyToDispatch
  /\ action' = [cmd |-> "rejected"]
  /\ Exit(2)
  /\ UNCHANGED <<store, catchErr, inserted, out>>
  /\ deleted' = {}

\* ---------------------------------------------------------------- commands
\* Action::Tasks: App::show_tasks
TasksCmd ==
  /\ ReadyToDispatch
  /\ \E all \in BOOLEAN, verbose \in BOOLEAN :
       /\ action' = [cmd |-> "tasks", all |-> all, verbose |-> verbose]
       /\ out' = show_tasks(tasks, work_bits, all, verbose)
  /\ Exit(0)
  /\ UNCHANGED <<store, catchErr, inserted>>
  /\ deleted' = {}

\* App::add_work_bit: the INSERT does not look the task up
add_work_bit(W, t, task_id, description) ==
  Append(W, [task_id |-> task_id, datetime |-> Timestamp(t),
             description |-> description])

\* Action::Record
RecordCmd ==
  /\ ReadyToDispatch
  /\ Len(work_bits) < MaxWorkBits
  /\ \E task_id \in TaskIds, description \in {None, Some("w")} :
       /\ action' = [cmd |-> "record", id |-> task_id]
       /\ IF foreign_keys /\ task_id \notin DOMAIN tasks
          THEN work_bits' = work_bits /\ Exit(1)
          ELSE /\ work_bits' = add_work_bit(work_bits, now, task_id, description)
               /\ Exit(0)
  /\ UNCHANGED <<tables, reminders, tasks, catchErr, inserted, out>>
  /\ deleted' = {}

\* Action::Task: due and start are parsed, then App::add_task
TaskCmd ==
  /\ ReadyToDispatch
  /\ \E a \in TaskArgs :
      LET text == a.text  due == a.due  start == a.start IN
       /\ action' = [cmd |-> "task", due |-> due, start |-> start]
       /\ IF due.tag = "bad" \/ start.tag = "bad"
          THEN Exit(1) /\ tasks' = tasks
          ELSE LET res == add_task(tasks, now, text.title, text.description,
                                   DateOpt(start), DateOpt(due), None)
               IN  IF res.err
                   THEN Exit(1) /\ tasks' = tasks
                   ELSE /\ res.id <= MaxId
                        /\ Exit(0) /\ tasks' = res.tasks
  /\ UNCHANGED <<tables, reminders, work_bits, catchErr, inserted, out>>
  /\ deleted' = {}

\* mutant of delete_task: the number of rows deleted is not looked at
delete_taskUnchecked(T, id) ==
  [err |-> FALSE, tasks |-> [i \in DOMAIN T \ {id} |-> T[i]]]

\* App::delete_task: "DELETE FROM tasks where ID = ?1"; Err when no row went
delete_task(T, id) ==
  IF id \in DOMAIN T
  THEN [err |-> FALSE, tasks |-> [i \in DOMAIN T \ {id} |-> T[i]]]
  ELSE [err |-> TRUE, tasks |-> T]

\* Action::DeleteTask
DeleteTaskCmd ==
  /\ ReadyToDispatch
  /\ \E id \in TaskIds :
       LET res == IF foreign_keys /\ \E k \in DOMAIN work_bits :
                                        work_bits[k].task_id = id
                  THEN [err |-> TRUE, tasks |-> tasks]
                  ELSE delete_task(tasks, id)
       IN  /\ action' = [cmd |-> "delete-task", id |-> id]
           /\ tasks' = res.tasks
           /\ deleted' = IF id \in DOMAIN tasks /\ ~res.err /\ IsSome(tasks[id].generated_by)
                         THEN {<<Unwrap(tasks[id].generated_by), Unwrap(tasks[id].due)>>}
                         ELSE {}
           /\ Exit(IF res.err THEN 1 ELSE 0)
  /\ UNCHANGED <<tables, reminders, work_bits, catchErr, inserted, out>>

\* mutant of complete_task: a completed task is completed again
complete_taskOverwrite(T, t, id) ==
  IF id \notin DOMAIN T THEN [err |-> TRUE, tasks |-> T]
  ELSE [err |-> FALSE,
        tasks |-> [T EXCEPT ![id].completed = Some(Timestamp(t))]]

\* App::complete_task: query_one fails for an id without a row; a task that
\* carries a completion time is refused; otherwise completed = now
complete_task(T, t, id) ==
  IF id \notin DOMAIN T THEN [err |-> TRUE, tasks |-> T]
  ELSE IF IsSome(T[id].completed) THEN [err |-> TRUE, tasks |-> T]
  ELSE [err |-> FALSE,
        tasks |-> [T EXCEPT ![id].completed = Some(Timestamp(t))]]

\* Action::Complete
CompleteCmd ==
  /\ ReadyToDispatch
  /\ \E id \in TaskIds :
       LET res == complete_task(tasks, now, id)
       IN  /\ action' = [cmd |-> "complete", id |-> id]
           /\ tasks' = res.tasks
           /\ Exit(IF res.err THEN 1 ELSE 0)
  /\ UNCHANGED <<tables, reminders, work_bits, catchErr, inserted, out>>
  /\ deleted' = {}

\* App::add_reminder: the period is stored as period.num_seconds()
add_reminder(R, t, title, description, first_due, period, until) ==
  Append(R, [title |-> title, description |-> description,
             created |-> Timestamp(t), first_due |-> first_due,
             period |-> period, until |-> until])

\* Action::Reminder: first_due, until and period are parsed in this order,
\* then App::add_reminder; a panic of parse_timedelta ends with status 101
ReminderCmd ==
  /\ ReadyToDispatch
  /\ \E a \in ReminderArgs :
       LET text == a.text  first_due == a.first_due  until == a.until
           p == parse_timedelta(a.period)
       IN  /\ action' = [cmd |-> "reminder"]
           /\ IF first_due.tag = "bad" \/ until.tag = "bad" \/ p.tag = "err"
              THEN Exit(1) /\ reminders' = reminders
              ELSE IF p.tag = "panic"
              THEN Exit(101) /\ reminders' = reminders
              ELSE /\ Len(reminders) < MaxReminders
                   /\ reminders' = add_reminder(reminders, now, text.title,
                                     text.description, first_due.val, p.days * Day,
                                     DateOpt(until))
                   /\ Exit(0)
  /\ UNCHANGED <<tables, tasks, work_bits, catchErr, inserted, out>>
  /\ deleted' = {}

\* Action::Reminders: App::show_reminders; the process does not end when the
\* rendering of a reminder does not
RemindersCmd ==
  /\ ReadyToDispatch
  /\ \E all \in BOOLEAN, verbose \in BOOLEAN :
       /\ action' = [cmd |-> "reminders", all |-> all, verbose |-> verbose]
       /\ out' = show_reminders(reminders, all, verbose, now)
       /\ IF \E r \in DOMAIN reminders : FmtDiverges(reminders, r, all, now)
          THEN pc' = "hung" /\ exitCode' = exitCode /\ now' = now
          ELSE Exit(0)
  /\ UNCHANGED <<store, catchErr, inserted>>
  /\ deleted' = {}

\* mutant of stop_reminder: an until that is set is kept
stop_reminderKeep(R, t, id) ==
  [r \in DOMAIN R |->
     IF r = id /\ R[r].until = None
     THEN [R[r] EXCEPT !.until = Some(Timestamp(t))]
     ELSE R[r]]

\* App::stop_reminder: "UPDATE reminders SET until = ?1 WHERE id = ?2"; the
\* number of rows changed is not looked at
stop_reminder(R, t, id) ==
  [r \in DOMAIN R |-> IF r = id THEN [R[r] EXCEPT !.until = Some(Timestamp(t))]
                      ELSE R[r]]

\* Action::Stop
StopCmd ==
  /\ ReadyToDispatch
  /\ \E id \in 1..(MaxReminders + 1) :
       /\ action' = [cmd |-> "stop", id |-> id]
       /\ reminders' = stop_reminder(reminders, now, id)
  /\ Exit(0)
  /\ UNCHANGED <<tables, tasks, work_bits, catchErr, inserted, out>>
  /\ deleted' = {}

Next ==
  \/ NoConnection
  \/ try_init
  \/ CatchUpOk
  \/ CatchUpErr
  \/ CatchUpHang
  \/ Spin
  \/ Kill
  \/ ArgsRejected
  \/ TasksCmd
  \/ RecordCmd
  \/ TaskCmd
  \/ DeleteTaskCmd
  \/ CompleteCmd
  \/ ReminderCmd
  \/ RemindersCmd
  \/ StopCmd

Spec == Init /\ [][Next]_vars

\* ------------------------------------------------- the period argument
\* `rem reminder <title> <first_due> <period>` with every period argument of
\* up to MaxLen characters, on a store that has its tables and no rows: the
\* step of main from the dispatch to the return of parse_timedelta.
PeriodChars == {"0", "1", "2", "w", "d", "f", " "}

\* the strings of n characters
StringsOfLen(n) == [1..n -> PeriodChars]

InitPeriod ==
  /\ tables = AllTables
  /\ reminders = <<>>
  /\ tasks = <<>>
  /\ work_bits = <<>>
  /\ pc = "caught_up"
  /\ now = [sec |-> 0, frac |-> FALSE]
  /\ action = [cmd |-> "none"]
  /\ catchErr = FALSE
  /\ inserted = <<>>
  /\ out = <<>>
  /\ deleted = {}
  /\ exitCode = 0

\* Action::Reminder up to `let period = parse_timedelta(period)...`: an Err
\* is printed and ends the process with status 1, a panic ends it with 101
ParsePeriod ==
  /\ ReadyToDispatch
  /\ \E n \in 0..MaxLen : \E repr \in StringsOfLen(n) :
       LET p == parse_timedelta(repr)
       IN  /\ action' = [cmd |-> "reminder", period |-> repr, parsed |-> p]
           /\ IF p.tag = "err" THEN Exit(1)
              ELSE IF p.tag = "panic" THEN Exit(101)
              ELSE pc' = "parsed" /\ exitCode' = exitCode /\ now' = now
  /\ UNCHANGED <<store, catchErr, inserted, out>>
  /\ deleted' = {}

NextPeriod == ParsePeriod

SpecPeriod == InitPeriod /\ [][NextPeriod]_vars

\* --------------------------------------------------- the weekly scenario
\* One reminder with first_due = day 0 and period "1w" is created in an empty
\* store, and one later invocation runs the catch-up for it.
WeeklyClock ==
  {[sec |-> d * Day, frac |-> f] : d \in 0..(DaysPerWeek * MaxWeek), f \in BOOLEAN}

InitWeekly ==
  /\ tables = AllTables
  /\ reminders = <<>>
  /\ tasks = <<>>
  /\ work_bits = <<>>
  /\ pc = "exited"
  /\ now = Boot
  /\ action = [cmd |-> "none"]
  /\ catchErr = FALSE
  /\ inserted = <<>>
  /\ out = <<>>
  /\ deleted = {}
  /\ exitCode = 0

\* App::try_init on a store that has its tables, while no task is stored
WeeklyTryInit ==
  /\ pc = "exited"
  /\ tasks = <<>>
  /\ \E t \in WeeklyClock : Later(t, now) /\ now' = t
  /\ pc' = "started"
  /\ action' = [cmd |-> "none"]
  /\ catchErr' = FALSE /\ inserted' = <<>> /\ out' = <<>>
  /\ UNCHANGED <<store, exitCode>>
  /\ UNCHANGED deleted

\* Action::Reminder for `rem reminder a <day 0> 1w`
WeeklyReminderCmd ==
  /\ ReadyToDispatch
  /\ reminders = <<>>
  /\ LET p == parse_timedelta(<<"1", "w">>)
     IN  /\ p.tag = "ok"
         /\ reminders' = add_reminder(reminders, now, "a", None, 0, p.days * Day, None)
  /\ action' = [cmd |-> "reminder"]
  /\ Exit(0)
  /\ UNCHANGED <<tables, tasks, work_bits, catchErr, inserted, out>>
  /\ deleted' = {}

NextWeekly ==
  \/ WeeklyTryInit
  \/ CatchUpOk
  \/ WeeklyReminderCmd
  \/ TasksCmd

SpecWeekly == InitWeekly /\ [][NextWeekly]_vars


\* ================================================================== claims
Range(q) == {q[k] : k \in 1..Len(q)}

\* reminders_to_tasks has returned Ok in the running invocation
CaughtUpOk == pc = "caught_up" /\ ~catchErr

\* the tasks table as it was when this invocation's catch-up began
Before == DOMAIN tasks \ Range(inserted)

\* due times the claims range over, and the indices of occurrences
DueTimes == {k * Day : k \in 0..(MaxDate + 2 * (MaxDay + 2))}
Indices == 0..(MaxDay + 2)

\* the reminders the catch-up of this invocation processes
Processed == {r \in DOMAIN reminders :
                reminders[r].until = None \/ now.sec < Unwrap(reminders[r].until)}

\* the instant now is at or after U, for a timestamp U of whole seconds
NowAtOrAfter(U) == now.sec >= U

\* C1: after catch_up(now) has run, a second run with the same now and the
\* same store inserts no task: it leaves the task table as the first run did.
C1_Idempotent ==
  CaughtUpOk => reminders_to_tasks(reminders, tasks, now).tasks = tasks

C1_Witness == CaughtUpOk /\ Len(inserted) >= 2

\* C2: for every reminder r that catch_up(now) processes, a task is inserted
\* for due time d exactly when d = r.first_due + i * r.period for some i >= 0,
\* d < now + r.period, and no task generated by r had due = d before; the
\* insertions of one reminder are in ascending order of d.
C2_InsertsExactlyMissing ==
  CaughtUpOk =>
    /\ \A r \in Processed : \A d \in DueTimes :
         (\E i \in Range(inserted) :
            tasks[i].generated_by = Some(r) /\ tasks[i].due = Some(d))
         <=>
         /\ \E i \in Indices : d = reminders[r].first_due + i * reminders[r].period
         /\ d < now.sec + reminders[r].period
              \/ (now.frac /\ d = now.sec + reminders[r].period)
         /\ ~\E j \in Before :
               tasks[j].generated_by = Some(r) /\ tasks[j].due = Some(d)
    /\ \A a, b \in 1..Len(inserted) :
         (a < b /\ tasks[inserted[a]].generated_by = tasks[inserted[b]].generated_by)
            => Unwrap(tasks[inserted[a]].due) < Unwrap(tasks[inserted[b]].due)
    /\ \A i \in Range(inserted) : Unwrap(tasks[i].due) \in DueTimes

C2_Witness ==
  /\ CaughtUpOk
  /\ Len(inserted) >= 2
  /\ \E j \in Before : tasks[j].generated_by = tasks[inserted[1]].generated_by

\* the due times of the tasks reminder r has generated
GeneratedDues(r) ==
  {Unwrap(tasks[i].due) : i \in {j \in DOMAIN tasks : tasks[j].generated_by = Some(r)}}

\* reminder r had generated no task when this invocation's catch-up began
FreshReminder(r) ==
  /\ r \in Processed
  /\ reminders[r].period > 0
  /\ \A j \in Before : tasks[j].generated_by # Some(r)

\* D0 + k*P <= now < D0 + (k+1)*P
InPeriod(r, k) ==
  /\ reminders[r].first_due + k * reminders[r].period <= now.sec
  /\ now.sec < reminders[r].first_due + (k + 1) * reminders[r].period

\* now = D0 + k*P, to the instant
OnOccurrence(r, k) ==
  ~now.frac /\ now.sec = reminders[r].first_due + k * reminders[r].period

OccurrenceDues(r, k) ==
  {reminders[r].first_due + i * reminders[r].period : i \in 0..k}

\* C3 as stated: with D0 + k*P <= now < D0 + (k+1)*P a reminder without
\* generated tasks gets tasks for exactly the occurrences 0..=k.
C3_AsStated ==
  CaughtUpOk =>
    \A r \in DOMAIN reminders : \A k \in Indices :
      (FreshReminder(r) /\ InPeriod(r, k)) => GeneratedDues(r) = OccurrenceDues(r, k)

\* C3: with D0 + k*P <= now < D0 + (k+1)*P a reminder without generated tasks
\* gets tasks for exactly the occurrences 0..=k when now = D0 + k*P to the
\* instant, and for exactly the occurrences 0..=k+1 otherwise.
C3_OccurrencesUpToNext ==
  CaughtUpOk =>
    \A r \in DOMAIN reminders : \A k \in Indices :
      (FreshReminder(r) /\ InPeriod(r, k)) =>
        GeneratedDues(r) =
          OccurrenceDues(r, IF OnOccurrence(r, k) THEN k ELSE k + 1)

C3_Witness ==
  /\ CaughtUpOk
  /\ \E r \in DOMAIN reminders : \E k \in Indices :
       /\ FreshReminder(r) /\ InPeriod(r, k) /\ ~OnOccurrence(r, k)
       /\ k >= 1
       /\ Cardinality(GeneratedDues(r)) = k + 2

\* C4 as stated: every task catch_up inserts for occurrence due time d of
\* reminder r has start = d - r.period, due = d, generated_by = r.id, no
\* completed, and the title and description of r.
C4_AsStated ==
  pc = "caught_up" =>
    \A i \in Range(inserted) :
      /\ IsSome(tasks[i].generated_by) /\ IsSome(tasks[i].due)
      /\ LET r == Unwrap(tasks[i].generated_by)
             d == Unwrap(tasks[i].due)
         IN  /\ r \in DOMAIN reminders
             /\ tasks[i].start = Some(d - reminders[r].period)
             /\ tasks[i].completed = None
             /\ tasks[i].title = reminders[r].title
             /\ tasks[i].description = reminders[r].description

\* C5: a reminder with until = U gets no task from catch_up, and is left out
\* of the listing without --all, whenever now >= U (now = U included).
C5_InactiveExcluded ==
  \A r \in DOMAIN reminders :
    (IsSome(reminders[r].until) /\ NowAtOrAfter(Unwrap(reminders[r].until))) =>
      /\ pc \in {"caught_up", "spinning", "hung"} =>
           \A i \in Range(inserted) : tasks[i].generated_by # Some(r)
      /\ (action.cmd = "reminders" /\ ~action.all) =>
           \A k \in 1..Len(out) : out[k].id # r

C5_Witness ==
  /\ pc = "exited" /\ exitCode = 0 /\ ~catchErr
  /\ action.cmd = "reminders" /\ ~action.all
  /\ \E r \in DOMAIN reminders :
       /\ reminders[r].until = Some(now.sec) /\ ~now.frac
       /\ reminders[r].period > 0
       /\ reminders[r].first_due <= now.sec
       /\ \A j \in DOMAIN tasks : tasks[j].generated_by # Some(r)

\* C6: a completion time, once set, is not changed or cleared by any step
\* while the task exists, and a complete on a completed task ends with an
\* error and leaves the tasks as they are.
C6_CompletionIsFinal ==
  [][/\ \A id \in DOMAIN tasks \cap DOMAIN tasks' :
          IsSome(tasks[id].completed) => tasks'[id].completed = tasks[id].completed
     /\ (/\ action.cmd = "none" /\ action'.cmd = "complete"
         /\ action'.id \in DOMAIN tasks
         /\ IsSome(tasks[action'.id].completed))
          => (exitCode' # 0 /\ tasks' = tasks)]_vars

C6_Witness ==
  /\ pc = "exited" /\ action.cmd = "complete" /\ exitCode = 1
  /\ action.id \in DOMAIN tasks
  /\ IsSome(tasks[action.id].completed)
  /\ Unwrap(tasks[action.id].completed) < now.sec

\* C7: every task with generated_by set has a due time, and the task the
\* task command has just stored has no generated_by.
C7_GeneratedHaveDue ==
  /\ \A i \in DOMAIN tasks : IsSome(tasks[i].generated_by) => IsSome(tasks[i].due)
  /\ (pc = "exited" /\ action.cmd = "task" /\ exitCode = 0) =>
       (tasks # <<>> /\ tasks[SetMax(DOMAIN tasks)].generated_by = None)

C7_Witness ==
  /\ pc = "exited" /\ action.cmd = "task" /\ exitCode = 0
  /\ \E i \in DOMAIN tasks : IsSome(tasks[i].generated_by)

\* C8 as stated: every stored reminder has period > 0.
C8_AsStated == \A r \in DOMAIN reminders : reminders[r].period > 0

\* C9: a command takes effect only after this invocation's catch-up has
\* returned, catch-up runs once per invocation, and the command writes the
\* `now` the catch-up ran with; the reminder command adds no task, and the
\* tasks listing shows every task the catch-up of the same invocation inserted.
C9_CatchUpThenCommand ==
  [][/\ pc' = "started" => pc = "exited"
     /\ (pc' = "caught_up" /\ pc # "caught_up") => (pc = "started" /\ now' = now)
     /\ (action.cmd = "none" /\ action'.cmd # "none") =>
          /\ pc = "caught_up"
          /\ now' = now
          /\ (action'.cmd = "complete" /\ exitCode' = 0) =>
               tasks'[action'.id].completed = Some(now.sec)
          /\ (action'.cmd = "stop" /\ action'.id \in DOMAIN reminders) =>
               reminders'[action'.id].until = Some(now.sec)
          /\ (action'.cmd = "reminder" /\ exitCode' = 0) =>
               /\ tasks' = tasks
               /\ \A i \in DOMAIN tasks' :
                    tasks'[i].generated_by # Some(Len(reminders'))
          /\ action'.cmd = "tasks" =>
               \A i \in Range(inserted) : \E k \in 1..Len(out') : out'[k].id = i]_vars

C9_Witness ==
  /\ pc = "exited" /\ action.cmd = "tasks" /\ exitCode = 0
  /\ inserted # <<>>
  /\ \A i \in Range(inserted) : \E k \in 1..Len(out) : out[k].id = i

\* C10 as stated: an invocation whose catch-up failed ends with a non-zero
\* exit status.
C10_AsStated == (pc = "exited" /\ catchErr) => exitCode # 0

\* reminder r is stopped at the clock reading t: its until is not after t
StoppedAt(R, r, t) == IsSome(R[r].until) /\ Unwrap(R[r].until) <= t.sec

\* C11: stop(id) in an invocation with now = T sets the reminder's until to T,
\* whatever it was, and leaves its other columns as they are; from then on
\* (the clock does not go back) the reminder stays stopped and no step adds a
\* task with generated_by = id.
C11_StopEndsGeneration ==
  [][/\ (action.cmd = "none" /\ action'.cmd = "stop"
           /\ action'.id \in DOMAIN reminders) =>
          /\ DOMAIN reminders' = DOMAIN reminders
          /\ reminders'[action'.id] =
               [reminders[action'.id] EXCEPT !.until = Some(now.sec)]
     /\ \A r \in DOMAIN reminders :
          StoppedAt(reminders, r, now) =>
            /\ r \in DOMAIN reminders' /\ StoppedAt(reminders', r, now')
            /\ \A i \in DOMAIN tasks' :
                 tasks'[i].generated_by = Some(r) =>
                   (i \in DOMAIN tasks /\ tasks[i].generated_by = Some(r))]_vars

\* a reminder created with until = day MaxDate and stopped at day 0 has been
\* through the catch-up of a later day that it would have got tasks from
C11_Witness ==
  /\ pc = "caught_up" /\ ~catchErr
  /\ \E r \in DOMAIN reminders :
       /\ reminders[r].until = Some(0)
       /\ reminders[r].period > 0
       /\ now.sec > 0
       /\ \E k \in Indices :
            LET d == reminders[r].first_due + k * reminders[r].period
            IN  /\ d < now.sec + reminders[r].period
                /\ \A i \in DOMAIN tasks :
                     tasks[i].generated_by = Some(r) => tasks[i].due # Some(d)

\* C12 as stated: every task generated by a reminder created with until = U
\* has due < U.  (A stop sets until to a time that is not after now, so an
\* until that is after now is the one the reminder was created with.)
C12_AsStated ==
  \A r \in DOMAIN reminders :
    (IsSome(reminders[r].until) /\ now.sec < Unwrap(reminders[r].until)) =>
      \A i \in DOMAIN tasks :
        tasks[i].generated_by = Some(r) =>
          Unwrap(tasks[i].due) < Unwrap(reminders[r].until)

\* the step in which main dispatches command cmd
Dispatches(cmd) == action.cmd = "none" /\ action'.cmd = cmd

\* C13: delete-task with the id of a stored task removes that task and leaves
\* every other task and every reminder as it is; with an id that has no task
\* it ends with an error and leaves the store as it is.
C13_DeleteTask ==
  [][Dispatches("delete-task") =>
       IF action'.id \in DOMAIN tasks
       THEN /\ DOMAIN tasks' = DOMAIN tasks \ {action'.id}
            /\ \A i \in DOMAIN tasks' : tasks'[i] = tasks[i]
            /\ reminders' = reminders
            /\ exitCode' = 0
       ELSE /\ exitCode' # 0
            /\ UNCHANGED store]_vars

\* a task with a work bit has been deleted while another task stays
C13_Witness ==
  /\ pc = "exited" /\ action.cmd = "delete-task" /\ exitCode = 0
  /\ action.id \notin DOMAIN tasks
  /\ tasks # <<>>
  /\ \E k \in DOMAIN work_bits : work_bits[k].task_id = action.id

\* C14 as stated: complete, record and delete-task with an id that has no
\* task, and stop with an id that has no reminder, end with an error and
\* leave the store as it is.
C14_AsStated ==
  [][(/\ action.cmd = "none"
      /\ \/ (action'.cmd \in {"complete", "record", "delete-task"}
               /\ action'.id \notin DOMAIN tasks)
         \/ (action'.cmd = "stop" /\ action'.id \notin DOMAIN reminders))
       => (exitCode' # 0 /\ UNCHANGED store)]_vars

\* C15 as stated: the task command with dates that parse (or none) ends with
\* success and has stored a task with created = now, start and due as given
\* (absent when not given), and neither completed nor generated_by.
C15_AsStated ==
  (/\ pc = "exited" /\ action.cmd = "task"
   /\ action.due.tag # "bad" /\ action.start.tag # "bad") =>
    /\ exitCode = 0
    /\ tasks # <<>>
    /\ LET row == tasks[SetMax(DOMAIN tasks)]
       IN  /\ row.created = now.sec
           /\ row.start = DateOpt(action.start)
           /\ row.due = DateOpt(action.due)
           /\ row.completed = None
           /\ row.generated_by = None

\* the catch-up has run at day 21, 08:00 to the instant, for the weekly
\* reminder with first_due = day 0 in a store without tasks
WeeklyAtDay21 ==
  /\ CaughtUpOk
  /\ now = [sec |-> 21 * Day, frac |-> FALSE]
  /\ Len(reminders) = 1
  /\ reminders[1].first_due = 0
  /\ reminders[1].period = DaysPerWeek * Day
  /\ Before = {}

\* C16 as stated: the weekly reminder with first_due = day 0 gets, at
\* now = day 21, exactly 3 tasks, due at day 7, 14 and 21.
C16_AsStated ==
  WeeklyAtDay21 =>
    /\ Cardinality(DOMAIN tasks) = 3
    /\ GeneratedDues(1) = {7 * Day, 14 * Day, 21 * Day}

\* C16: the weekly reminder with first_due = day 0 gets, at now = day 21 to
\* the instant, exactly 4 tasks, due at day 0, 7, 14 and 21.
C16_FourOccurrences ==
  WeeklyAtDay21 =>
    /\ Cardinality(DOMAIN tasks) = 4
    /\ \A i \in DOMAIN tasks : tasks[i].generated_by = Some(1)
    /\ GeneratedDues(1) = {0, 7 * Day, 14 * Day, 21 * Day}

C16_Witness == WeeklyAtDay21 /\ Len(inserted) = 4

\* ---- the period argument as the claims describe it
\* the parser has returned (or panicked) for the period argument
Parsed == action.cmd = "reminder" /\ pc \in {"parsed", "exited"}

\* the tokens of s: the longest stretches without a space, as <<first, last>>
Segments(s) ==
  LET first == {i \in 1..Len(s) : s[i] # " " /\ (i = 1 \/ s[i - 1] = " ")}
      last == {j \in 1..Len(s) : s[j] # " " /\ (j = Len(s) \/ s[j + 1] = " ")}
  IN  {<<i, CHOOSE j \in last : j >= i /\ \A k \in last : k >= i => j <= k>> :
         i \in first}

\* s is a sequence of one or more tokens with one space between neighbours
IsTokenSequence(s) ==
  /\ s # <<>>
  /\ s[1] # " " /\ s[Len(s)] # " "
  /\ \A k \in 1..(Len(s) - 1) : ~(s[k] = " " /\ s[k + 1] = " ")

\* an unsigned integer followed by the one unit letter w or d
IsDurationToken(s, seg) ==
  /\ seg[2] > seg[1]
  /\ s[seg[2]] \in {"w", "d"}
  /\ \A k \in seg[1]..(seg[2] - 1) : s[k] \in Digits

\* an unsigned integer followed by one or more letters
IsNumberWithLetters(s, seg) ==
  \E m \in seg[1]..(seg[2] - 1) :
    /\ \A k \in seg[1]..m : s[k] \in Digits
    /\ \A k \in (m + 1)..seg[2] : s[k] \notin Digits

\* the number a string of digits denotes
RECURSIVE DecimalValue(_)
DecimalValue(ds) ==
  IF ds = <<>> THEN 0
  ELSE 10 * DecimalValue(SubSeq(ds, 1, Len(ds) - 1)) + DigitVal(ds[Len(ds)])

\* every token is a duration token and no unit is given twice
IsDuration(s) ==
  /\ \A seg \in Segments(s) : IsDurationToken(s, seg)
  /\ \A a, b \in Segments(s) : (a # b) => s[a[2]] # s[b[2]]

\* the count given for unit u, 0 when the unit is not given
CountOf(s, u) ==
  LET hit == {seg \in Segments(s) : s[seg[2]] = u}
  IN  IF hit = {} THEN 0
      ELSE LET seg == CHOOSE x \in hit : TRUE
           IN  DecimalValue(SubSeq(s, seg[1], seg[2] - 1))

\* C17: for a period argument that is a sequence of tokens separated by one
\* space, the parser returns Ok exactly when every token is an unsigned integer
\* followed by one unit letter w or d and no unit is given twice; the result
\* is then days + 7 * weeks days, whatever the order of the tokens; when every
\* token is a number followed by letters and a unit is repeated, unknown or
\* of several letters, the result is Err.
C17_ParserAccepts ==
  Parsed =>
    LET s == action.period
        p == action.parsed
    IN  /\ IsTokenSequence(s) =>
             /\ p.tag = "ok" <=> IsDuration(s)
             /\ p.tag = "ok" => p.days = CountOf(s, "d") + 7 * CountOf(s, "w")
             /\ (/\ \A seg \in Segments(s) : IsNumberWithLetters(s, seg)
                 /\ ~IsDuration(s)) => p.tag = "err"
        /\ s = <<"1", "w">> => p = POk(7)
        /\ s = <<"1", "d">> => p = POk(1)
        /\ s = <<"1", "w", " ", "2", "d">> => p = POk(9)
        /\ s = <<"2", "w", " ", "1", "d">> => p = POk(15)
        /\ s = <<"1", "w", " ", "1", "w">> => p = PErr
        /\ s = <<"1", "d", " ", "1", "d">> => p = PErr
        /\ s = <<"1", "w", "f", " ", "2", "d">> => p = PErr

C17_Witness ==
  /\ pc = "parsed"
  /\ action.period = <<"2", "d", " ", "1", "w">>
  /\ action.parsed = POk(9)

\* C18 as stated: a period argument without a complete token (the empty
\* string, spaces only, numbers without a unit letter) gives an Err, which is
\* reported and ends the process with status 1.
C18_AsStated ==
  (Parsed /\ \A k \in 1..Len(action.period) : action.period[k] \in Digits \cup {" "}) =>
    (action.parsed.tag = "err" /\ exitCode = 1)

\* the entries of the listing for id
Rendering(id) == SelectSeq(out, LAMBDA e : e.id = id)

\* the reminders whose rendering the listing has begun
Rendered ==
  {r \in DOMAIN reminders :
     \A q \in 1..(r - 1) : ~FmtDiverges(reminders, q, action.all, now)}

\* C19: without --all the rendering of a completed task and of an inactive
\* reminder (until present and now >= until) is empty; with --all the
\* rendering of every task and every reminder has its heading, whose marker
\* is x exactly when the task is completed or the reminder is inactive.
C19_DisplayFilter ==
  /\ (pc = "exited" /\ action.cmd = "tasks") =>
       \A i \in DOMAIN tasks :
         /\ (~action.all /\ IsSome(tasks[i].completed)) => Rendering(i) = <<>>
         /\ action.all =>
              /\ Len(Rendering(i)) = 1
              /\ Rendering(i)[1].marker = "x" <=> IsSome(tasks[i].completed)
              /\ Rendering(i)[1].marker \in {"x", " "}
  /\ (pc \in {"exited", "hung"} /\ action.cmd = "reminders") =>
       \A r \in Rendered :
         LET inactive == /\ IsSome(reminders[r].until)
                         /\ NowAtOrAfter(Unwrap(reminders[r].until))
         IN  /\ (~action.all /\ inactive) => Rendering(r) = <<>>
             /\ action.all =>
                  /\ Len(Rendering(r)) = 1
                  /\ Rendering(r)[1].marker = "x" <=> inactive
                  /\ Rendering(r)[1].marker \in {"x", " "}

\* the listing with --all has shown a reminder whose until is now
C19_Witness ==
  /\ pc = "exited" /\ action.cmd = "reminders" /\ action.all
  /\ \E r \in DOMAIN reminders :
       /\ reminders[r].until = Some(now.sec) /\ ~now.frac
       /\ Len(Rendering(r)) = 1
       /\ Rendering(r)[1].marker = "x"

\* the until of reminder r is now, to the instant
UntilIsNow(r) == reminders[r].until = Some(now.sec) /\ ~now.frac

\* the occurrences of reminder r with due < now + period
WindowDues(r) ==
  {d \in {reminders[r].first_due + k * reminders[r].period : k \in Indices} :
     d < now.sec + reminders[r].period}

\* C20 as stated: the catch-up includes a reminder whose until is now: every
\* occurrence with due < now + period has its task when the catch-up is back.
C20_AsStated ==
  CaughtUpOk =>
    \A r \in DOMAIN reminders :
      (UntilIsNow(r) /\ reminders[r].period > 0) =>
        \A d \in WindowDues(r) : d \in GeneratedDues(r)

\* C20: the catch-up leaves out a reminder whose until is now: it inserts no
\* task for it, whatever occurrences are missing.
C20_UntilNowExcluded ==
  pc \in {"caught_up", "spinning", "hung"} =>
    \A r \in DOMAIN reminders :
      UntilIsNow(r) => \A i \in Range(inserted) : tasks[i].generated_by # Some(r)

\* the catch-up is back while a reminder whose until is now lacks the task
\* of an occurrence in its window
C20_Witness ==
  /\ CaughtUpOk
  /\ \E r \in DOMAIN reminders :
       /\ UntilIsNow(r) /\ reminders[r].period > 0
       /\ \E d \in WindowDues(r) : d \notin GeneratedDues(r)

\* C21 as stated: no two tasks have the same generated_by reminder and the
\* same due.
C21_AsStated ==
  \A i, j \in DOMAIN tasks :
    (i # j /\ IsSome(tasks[i].generated_by)) =>
      ~(tasks[i].generated_by = tasks[j].generated_by /\ tasks[i].due = tasks[j].due)

\* C22 as stated: when the catch-up of an invocation begins, the loop of
\* every reminder it processes ends, and the catch-up is never in a loop
\* that does not end: main goes on to the command.
C22_AsStated ==
  /\ pc = "started" => \A r \in Processed : ~Diverges(reminders[r], now)
  /\ action.cmd = "none" => pc \notin {"spinning", "hung"}

\* C23: a step of the catch-up leaves every stored task as it is, in all its
\* columns, and every reminder and every work bit; each task it adds is
\* generated by a reminder that is active at the invocation's now.
C23_CatchUpOnlyInserts ==
  [][(pc \in {"started", "spinning"}) =>
       /\ \A i \in DOMAIN tasks : i \in DOMAIN tasks' /\ tasks'[i] = tasks[i]
       /\ reminders' = reminders
       /\ work_bits' = work_bits
       /\ tables' = tables
       /\ \A i \in DOMAIN tasks' \ DOMAIN tasks :
            /\ IsSome(tasks'[i].generated_by)
            /\ Unwrap(tasks'[i].generated_by) \in DOMAIN reminders
            /\ is_active(reminders[Unwrap(tasks'[i].generated_by)], now)]_vars

\* the catch-up has added a task to a store that holds a completed task and
\* a work bit
C23_Witness ==
  /\ CaughtUpOk
  /\ inserted # <<>>
  /\ work_bits # <<>>
  /\ \E j \in Before :
       IsSome(tasks[j].completed) /\ tasks[j].generated_by = tasks[inserted[1]].generated_by

\* C24: a generated task with due d of reminder r that delete-task removed is
\* inserted again, with generated_by = r and due = d, by the next catch-up
\* that returns, provided r is still active then.
C24_DeletedComesBack ==
  CaughtUpOk =>
    \A x \in deleted :
      x[1] \in Processed =>
        \E i \in Range(inserted) :
          tasks[i].generated_by = Some(x[1]) /\ tasks[i].due = Some(x[2])

\* a catch-up has returned after delete-task removed a generated task of a
\* reminder that is still active, and an older task of the reminder is kept
C24_Witness ==
  /\ CaughtUpOk
  /\ \E x \in deleted :
       /\ x[1] \in Processed
       /\ \E i \in Range(inserted) :
            tasks[i].generated_by = Some(x[1]) /\ tasks[i].due = Some(x[2])
       /\ \E j \in Before :
            tasks[j].generated_by = Some(x[1]) /\ Unwrap(tasks[j].due) > x[2]

\* C25: while a completed task generated by reminder r with due d is in the
\* store, no step inserts another task with generated_by = r and due = d.
C25_CompletedStaysDone ==
  [][\A i \in DOMAIN tasks :
       (IsSome(tasks[i].completed) /\ IsSome(tasks[i].generated_by)) =>
         \A j \in DOMAIN tasks' \ DOMAIN tasks :
           ~(tasks'[j].generated_by = tasks[i].generated_by /\
             tasks'[j].due = tasks[i].due)]_vars

\* a catch-up has returned that found a completed task of an active reminder
\* in the store, completed in an earlier invocation and with its due in the
\* window, and that inserted a later occurrence of the same reminder
C25_Witness ==
  /\ CaughtUpOk
  /\ \E r \in Processed :
       \E j \in Before :
         /\ tasks[j].generated_by = Some(r)
         /\ IsSome(tasks[j].completed)
         /\ Unwrap(tasks[j].completed) < now.sec
         /\ Unwrap(tasks[j].due) \in WindowDues(r)
         /\ \E i \in Range(inserted) :
              /\ tasks[i].generated_by = Some(r)
              /\ Unwrap(tasks[i].due) > Unwrap(tasks[j].due)

\* C26 as stated: the work bits listed for a task were all recorded against
\* that very task: none carries a time before the task's row was inserted
\* (add_task writes the time of the insertion to the start column).
C26_AsStated ==
  \A i \in DOMAIN tasks :
    LET bits == TaskWorkBits(work_bits, i)
    IN  \A k \in 1..Len(bits) : bits[k][1] >= Unwrap(tasks[i].start)

====
